---- MODULE Spec2Model ----
(***************************************************************************)
(* A model of tracing-rolling-file: the rolling condition                  *)
(* (src/src/base.rs) and the rolling file appender (src/src/lib.rs).       *)
(*                                                                         *)
(* A file is the sequence of its bytes.  The directory is a function from  *)
(* the slots that exist (slot n is filename_for(n): 0 is the live file     *)
(* base, n > 0 is base.n) to their on-disk content.  A timestamp is the    *)
(* record of its local wall-clock components.  The environment decides     *)
(* which system calls fail: every operation of the appender is modelled    *)
(* as the set of outcomes it can have, one for each way its system calls   *)
(* can succeed or fail.                                                    *)
(***************************************************************************)
EXTENDS Integers, Sequences, FiniteSets, TLC

VARIABLES
    condition,          \* RollingFileAppender.condition (a RollingConditionBase)
    max_filecount,      \* RollingFileAppender.max_filecount
    current_filesize,   \* RollingFileAppender.current_filesize
    writer_opt,         \* RollingFileAppender.writer_opt: None or Some(BufWriter)
    disk,               \* the files base, base.1, ... that exist, with their content
    next_byte,          \* the caller: the next byte value it will hand to write
    rotations,          \* the caller's count of the rollovers that returned Ok
    rollover_failed,    \* the caller's note that some rollover returned Err
    written             \* the caller's record of the writes made since the live
                        \* file was opened: each buffer, and whether write returned Ok

vars == <<condition, max_filecount, current_filesize, writer_opt, disk,
          next_byte, rotations, rollover_failed, written>>

---------------------------------------------------------------------------
(* Bounds of the model. *)

\* The largest max_filecount an appender is constructed with.
MaxFiles == 2
\* The caller hands at most this many bytes to write over a run.
MaxBytes == 3
\* The longest buffer handed to one write.
MaxLen == 2
\* The capacity of the BufWriter (8192 in std, scaled down).
BufCap == 2
\* The largest size threshold a condition is built with.
MaxThreshold == 2
\* The caller that counts rollovers calls rollover() only below this count.
MaxRollovers == 3

---------------------------------------------------------------------------
(* Option<T>: None, or Some(x). *)

None == <<>>
Some(x) == <<x>>
is_some(o) == o # <<>>
is_none(o) == o = <<>>
unwrap(o) == o[1]

Max(a, b) == IF a >= b THEN a ELSE b
Min(a, b) == IF a <= b THEN a ELSE b

---------------------------------------------------------------------------
(* DateTime<Local>, by its local wall-clock components. *)

DateTime(y, mo, d, h, mi, s) ==
    [year |-> y, month |-> mo, day |-> d, hour |-> h, minute |-> mi, second |-> s]

\* RollingFrequency
EveryDay == "EveryDay"
EveryHour == "EveryHour"
EveryMinute == "EveryMinute"
RollingFrequency == {EveryDay, EveryHour, EveryMinute}

\* A faulty variant of equivalent_datetime: EveryHour keeps the hour and
\* drops the day.
equivalent_datetime_hour_of_day(self, dt) ==
    CASE self = EveryDay    -> DateTime(dt.year, dt.month, dt.day, 0, 0, 0)
      [] self = EveryHour   -> DateTime(dt.year, dt.month, 1, dt.hour, 0, 0)
      [] self = EveryMinute -> DateTime(dt.year, dt.month, dt.day, dt.hour, dt.minute, 0)

\* RollingFrequency::equivalent_datetime
equivalent_datetime(self, dt) ==
    CASE self = EveryDay    -> DateTime(dt.year, dt.month, dt.day, 0, 0, 0)
      [] self = EveryHour   -> DateTime(dt.year, dt.month, dt.day, dt.hour, 0, 0)
      [] self = EveryMinute -> DateTime(dt.year, dt.month, dt.day, dt.hour, dt.minute, 0)

---------------------------------------------------------------------------
(* RollingConditionBase *)

\* RollingConditionBase::new
new_condition ==
    [last_write_opt |-> None, frequency_opt |-> None, max_size_opt |-> None]

\* RollingConditionBase::frequency (daily, hourly and minutely are its instances)
frequency(self, x) == [self EXCEPT !.frequency_opt = Some(x)]

\* RollingConditionBase::max_size
max_size(self, x) == [self EXCEPT !.max_size_opt = Some(x)]

\* The frequency test of should_rollover (base.rs 71-77).
frequency_rollover(self, now) ==
    /\ is_some(self.frequency_opt)
    /\ is_some(self.last_write_opt)
    /\ equivalent_datetime(unwrap(self.frequency_opt), now)
         # equivalent_datetime(unwrap(self.frequency_opt), unwrap(self.last_write_opt))

\* A faulty variant of size_rollover: the size must exceed the limit.
size_rollover_strict(self, current_size) ==
    /\ is_some(self.max_size_opt)
    /\ current_size > unwrap(self.max_size_opt)

\* The size test of should_rollover (base.rs 78-82).
size_rollover(self, current_size) ==
    /\ is_some(self.max_size_opt)
    /\ current_size >= unwrap(self.max_size_opt)

\* A faulty variant of should_rollover: with a frequency and a size limit
\* both tests must say so.
should_rollover_conjunctive(self, now, current_size) ==
    [self     |-> [self EXCEPT !.last_write_opt = Some(now)],
     rollover |-> IF is_some(self.frequency_opt) /\ is_some(self.max_size_opt)
                    THEN frequency_rollover(self, now) /\ size_rollover(self, current_size)
                    ELSE frequency_rollover(self, now) \/ size_rollover(self, current_size)]

\* A faulty variant of should_rollover: now is recorded only when nothing is
\* recorded yet or the answer is true.
should_rollover_recording_changes(self, now, current_size) ==
    LET answer == frequency_rollover(self, now) \/ size_rollover(self, current_size)
    IN [self     |-> IF answer \/ is_none(self.last_write_opt)
                       THEN [self EXCEPT !.last_write_opt = Some(now)]
                       ELSE self,
        rollover |-> answer]

\* RollingConditionBase::should_rollover: the condition it leaves and what it returns.
should_rollover(self, now, current_size) ==
    [self     |-> [self EXCEPT !.last_write_opt = Some(now)],
     rollover |-> frequency_rollover(self, now) \/ size_rollover(self, current_size)]

---------------------------------------------------------------------------
(* io::Result: Ok(n), or Err of the system call that failed (and, for a    *)
(* rename, of the slot it was renaming).                                   *)

Ok(n) == [ok |-> TRUE, n |-> n, err |-> "", slot |-> 0]
Err(e, i) == [ok |-> FALSE, n |-> 0, err |-> e, slot |-> i]

---------------------------------------------------------------------------
(* The file system calls the appender makes, each as the set of its        *)
(* possible outcomes.                                                      *)

\* The directory without the file of slot n.
without(fs, n) == [m \in DOMAIN fs \ {n} |-> fs[m]]

\* fs::remove_file(filename_for(n)): the file is removed, or the call fails and
\* nothing changes (rotate_files ignores which: `let _ =`).
remove_file(fs, n) ==
    IF n \in DOMAIN fs THEN {without(fs, n), fs} ELSE {fs}

\* fs::rename(filename_for(from), filename_for(to)) followed by the or_else of
\* rotate_files: a missing source is NotFound, which or_else turns into Ok; a
\* rename that succeeds replaces the destination; any rename may fail with
\* another error, changing nothing.
rename(fs, from, to) ==
    (IF from \in DOMAIN fs
       THEN {[fs |-> [m \in (DOMAIN fs \ {from}) \cup {to} |->
                          IF m = to THEN fs[from] ELSE fs[m]],
              r |-> Ok(0)]}
       ELSE {[fs |-> fs, r |-> Ok(0)]})
    \cup {[fs |-> fs, r |-> Err("rename", from)]}

\* OpenOptions::new().append(true).create(true).open(filename_for(0)), with the
\* retry after create_dir_all: the file exists afterwards (created empty when it
\* was missing), or the open fails and nothing changes.
open_append(fs) ==
    {[fs |-> IF 0 \in DOMAIN fs THEN fs ELSE [m \in DOMAIN fs \cup {0} |->
                                                 IF m = 0 THEN <<>> ELSE fs[m]],
      r |-> Ok(0)],
     [fs |-> fs, r |-> Err("open", 0)]}

\* path.metadata().map_or(0, |m| m.len()): the length of the file, or 0 when
\* the metadata call fails.
metadata_len(fs) == {Len(fs[0]), 0}

\* File::write_all(data) on a file opened for append: all of data reaches the
\* end of the file, or the call fails after a proper prefix of it has.
file_write_all(buf, file, data) ==
    {[buf |-> buf, file |-> file \o data, ok |-> TRUE]}
    \cup {[buf |-> buf, file |-> file \o SubSeq(data, 1, k), ok |-> FALSE] :
             k \in 0 .. Len(data) - 1}

\* BufWriter::flush_buf: the buffered bytes reach the file, or the write fails
\* after a proper prefix of them has (the rest stays buffered).
flush_buf(buf, file) ==
    {[buf |-> <<>>, file |-> file \o buf, ok |-> TRUE]}
    \cup {[buf |-> SubSeq(buf, k + 1, Len(buf)), file |-> file \o SubSeq(buf, 1, k),
           ok |-> FALSE] : k \in 0 .. Len(buf) - 1}

\* BufWriter::write_all(data): data is buffered when it fits the spare
\* capacity; otherwise the buffer is flushed first when data exceeds the spare
\* capacity, and data goes to the buffer, or straight to the file when it is
\* as long as the capacity.
buf_write_all(buf, file, data) ==
    IF Len(data) < BufCap - Len(buf)
      THEN {[buf |-> buf \o data, file |-> file, ok |-> TRUE]}
      ELSE UNION {
             IF ~f.ok THEN {f}
             ELSE IF Len(data) >= BufCap THEN file_write_all(f.buf, f.file, data)
             ELSE {[buf |-> f.buf \o data, file |-> f.file, ok |-> TRUE]} :
             f \in (IF Len(data) > BufCap - Len(buf)
                      THEN flush_buf(buf, file)
                      ELSE {[buf |-> buf, file |-> file, ok |-> TRUE]}) }

---------------------------------------------------------------------------
(* RollingFileAppender.  self is the record of its fields, fs the          *)
(* directory; an outcome is the appender and the directory an operation    *)
(* leaves and the io::Result r it returns.                                 *)

Outcome(self, fs, r) == [self |-> self, fs |-> fs, r |-> r]

\* A faulty variant of last_slot: max_filecount without the .max(1).
last_slot_unclamped(self) == self.max_filecount

\* The last slot of the rotation chain: max_filecount.max(1).
last_slot(self) == Max(self.max_filecount, 1)

\* A faulty variant of rotate_loop: the slots are renamed from slot 0 up to slot i.
RECURSIVE rotate_loop_ascending(_, _, _)
rotate_loop_ascending(i, fs, r) ==
    IF i < 0 THEN {[fs |-> fs, r |-> r]}
    ELSE UNION { {[fs |-> o.fs, r |-> IF o.r.ok THEN below.r ELSE o.r] :
                  o \in rename(below.fs, i, i + 1)} :
                 below \in rotate_loop_ascending(i - 1, fs, r) }

\* The loop of rotate_files, from slot i down to slot 0: every rename is
\* attempted, and r is overwritten by each rename that fails.
RECURSIVE rotate_loop(_, _, _)
rotate_loop(i, fs, r) ==
    IF i < 0 THEN {[fs |-> fs, r |-> r]}
    ELSE UNION { rotate_loop(i - 1, o.fs, IF o.r.ok THEN r ELSE o.r) :
                 o \in rename(fs, i, i + 1) }

\* RollingFileAppender::rotate_files
rotate_files(self, fs) ==
    UNION { rotate_loop(last_slot(self) - 1, f, Ok(0)) :
            f \in remove_file(fs, last_slot(self)) }

\* RollingFileAppender::open_writer_if_needed
open_writer_if_needed(self, fs) ==
    IF is_none(self.writer_opt)
      THEN UNION {
             IF ~o.r.ok THEN {Outcome(self, fs, o.r)}
             ELSE {Outcome([self EXCEPT !.writer_opt = Some(<<>>),
                                        !.current_filesize = n],
                           o.fs, Ok(0)) : n \in metadata_len(o.fs)} :
             o \in open_append(fs) }
      ELSE {Outcome(self, fs, Ok(0))}

\* A faulty variant of flush: it returns Ok without flushing the BufWriter.
flush_skipped(self, fs) == {Outcome(self, fs, Ok(0))}

\* <RollingFileAppender as io::Write>::flush
flush(self, fs) ==
    IF is_some(self.writer_opt)
      THEN {Outcome([self EXCEPT !.writer_opt = Some(o.buf)],
                    [fs EXCEPT ![0] = o.file],
                    IF o.ok THEN Ok(0) ELSE Err("flush", 0)) :
            o \in flush_buf(unwrap(self.writer_opt), fs[0])}
      ELSE {Outcome(self, fs, Ok(0))}

\* self.writer_opt.take(), which drops the BufWriter: the drop writes what is
\* still buffered as far as it can and ignores the error; what it could not
\* write is lost with the buffer.
take_writer(self, fs) ==
    IF is_some(self.writer_opt)
      THEN {[self |-> [self EXCEPT !.writer_opt = None],
             fs |-> [fs EXCEPT ![0] = o.file]] :
            o \in flush_buf(unwrap(self.writer_opt), fs[0])}
      ELSE {[self |-> self, fs |-> fs]}

\* A faulty variant of rollover: the writer is taken without the flush of
\* lib.rs 135, so what is buffered is written only by the drop.
rollover_unflushed(self, fs) ==
    UNION {
      LET closed == [c.self EXCEPT !.current_filesize = 0]
      IN UNION {
           IF ~t.r.ok THEN {Outcome(closed, t.fs, t.r)}
           ELSE open_writer_if_needed(closed, t.fs) :
           t \in rotate_files(closed, c.fs) } :
      c \in take_writer(self, fs) }

\* A faulty variant of rollover: it returns after rotate_files, without the
\* open_writer_if_needed of lib.rs 140.
rollover_not_reopening(self, fs) ==
    UNION {
      IF ~f.r.ok THEN {f}
      ELSE UNION {
             LET closed == [c.self EXCEPT !.current_filesize = 0]
             IN {Outcome(closed, t.fs, t.r) : t \in rotate_files(closed, c.fs)} :
             c \in take_writer(f.self, f.fs) } :
      f \in flush(self, fs) }

\* A faulty variant of rollover: current_filesize is reset before the flush.
rollover_resetting_first(self, fs) ==
    UNION {
      IF ~f.r.ok THEN {f}
      ELSE UNION {
             UNION {
               IF ~t.r.ok THEN {Outcome(c.self, t.fs, t.r)}
               ELSE open_writer_if_needed(c.self, t.fs) :
               t \in rotate_files(c.self, c.fs) } :
             c \in take_writer(f.self, f.fs) } :
      f \in flush([self EXCEPT !.current_filesize = 0], fs) }

\* RollingFileAppender::rollover
rollover(self, fs) ==
    UNION {
      IF ~f.r.ok THEN {f}
      ELSE UNION {
             LET closed == [c.self EXCEPT !.current_filesize = 0]
             IN UNION {
                  IF ~t.r.ok THEN {Outcome(closed, t.fs, t.r)}
                  ELSE open_writer_if_needed(closed, t.fs) :
                  t \in rotate_files(closed, c.fs) } :
             c \in take_writer(f.self, f.fs) } :
      f \in flush(self, fs) }

\* What write_with_datetime has done when it calls open_writer_if_needed
\* (lib.rs 168-176): the condition is asked and, when it says so, rollover is
\* called and its error, if any, is printed and dropped.  rolled is the
\* answer of the condition, rr what rollover returned.
write_rollover(self, fs, now) ==
    LET d == should_rollover(self.condition, now, self.current_filesize)
        asked == [self EXCEPT !.condition = d.self]
    IN IF d.rollover
         THEN {[self |-> o.self, fs |-> o.fs, rolled |-> TRUE, rr |-> o.r] :
               o \in rollover(asked, fs)}
         ELSE {[self |-> asked, fs |-> fs, rolled |-> FALSE, rr |-> Ok(0)]}

\* The write of write_with_datetime (lib.rs 178-189) through an open writer.
write_buf(self, fs, buf) ==
    {Outcome([self EXCEPT !.writer_opt = Some(w.buf),
                          !.current_filesize =
                              IF w.ok THEN @ + Len(buf) ELSE @],
             [fs EXCEPT ![0] = w.file],
             IF w.ok THEN Ok(Len(buf)) ELSE Err("write", 0)) :
     w \in buf_write_all(unwrap(self.writer_opt), fs[0], buf)}

\* A faulty variant of write_with_datetime: the error of rollover is returned
\* (self.rollover()?) instead of printed.
write_with_datetime_propagating(self, fs, buf, now) ==
    UNION {
      IF p.rolled /\ ~p.rr.ok
        THEN {[self |-> p.self, fs |-> p.fs, r |-> p.rr, rolled |-> p.rolled, rr |-> p.rr]}
        ELSE UNION {
               {[self |-> w.self, fs |-> w.fs, r |-> w.r, rolled |-> p.rolled, rr |-> p.rr] :
                w \in (IF ~o.r.ok THEN {o} ELSE write_buf(o.self, o.fs, buf))} :
               o \in open_writer_if_needed(p.self, p.fs) } :
      p \in write_rollover(self, fs, now) }

\* A faulty variant of write_with_datetime: the condition is asked with the
\* size the file will have after the write.
write_with_datetime_size_after(self, fs, buf, now) ==
    LET d == should_rollover(self.condition, now, self.current_filesize + Len(buf))
        asked == [self EXCEPT !.condition = d.self]
        ps == IF d.rollover
                THEN {[self |-> o.self, fs |-> o.fs, rolled |-> TRUE, rr |-> o.r] :
                      o \in rollover(asked, fs)}
                ELSE {[self |-> asked, fs |-> fs, rolled |-> FALSE, rr |-> Ok(0)]}
    IN UNION {
         UNION {
           {[self |-> w.self, fs |-> w.fs, r |-> w.r, rolled |-> p.rolled, rr |-> p.rr] :
            w \in (IF ~o.r.ok THEN {o} ELSE write_buf(o.self, o.fs, buf))} :
           o \in open_writer_if_needed(p.self, p.fs) } :
         p \in ps }

\* A faulty variant of write_with_datetime: when rollover fails the
\* condition is put back as it was, so that the next write asks again.
write_with_datetime_retrying(self, fs, buf, now) ==
    UNION {
      UNION {
        {[self |-> IF p.rolled /\ ~p.rr.ok
                     THEN [w.self EXCEPT !.condition = self.condition]
                     ELSE w.self,
          fs |-> w.fs, r |-> w.r, rolled |-> p.rolled, rr |-> p.rr] :
         w \in (IF ~o.r.ok THEN {o} ELSE write_buf(o.self, o.fs, buf))} :
        o \in open_writer_if_needed(p.self, p.fs) } :
      p \in write_rollover(self, fs, now) }

\* RollingFileAppender::write_with_datetime: its outcomes, each with whether
\* the condition asked for a rollover and what that rollover returned.
write_with_datetime(self, fs, buf, now) ==
    UNION {
      UNION {
        {[self |-> w.self, fs |-> w.fs, r |-> w.r, rolled |-> p.rolled, rr |-> p.rr] :
         w \in (IF ~o.r.ok THEN {o} ELSE write_buf(o.self, o.fs, buf))} :
        o \in open_writer_if_needed(p.self, p.fs) } :
      p \in write_rollover(self, fs, now) }

\* RollingFileAppender::new in a directory fs.
new(cond, max_files, fs) ==
    open_writer_if_needed([condition |-> cond, max_filecount |-> max_files,
                           current_filesize |-> 0, writer_opt |-> None], fs)

---------------------------------------------------------------------------
(* The caller: what it constructs the appender with and what it hands to   *)
(* write.                                                                  *)

\* The timestamps handed to write: a time, and a time of the next day.
Times ==
    {DateTime(2021, 3, 30, 1, 2, 3), DateTime(2021, 3, 31, 2, 2, 3)}

\* The frequency that tells these timestamps apart.
Frequencies == {EveryDay}

\* What the builder of RollingConditionBase builds from the frequencies fs
\* and the size limits ts: no condition, a frequency, a size limit, or both.
Built(fs, ts) ==
    {new_condition}
    \cup {frequency(new_condition, f) : f \in fs}
    \cup {max_size(new_condition, t) : t \in ts}
    \cup {max_size(frequency(new_condition, f), t) : f \in fs, t \in ts}

Conditions == Built(Frequencies, 0 .. MaxThreshold)

\* The len bytes the caller writes next: byte values are never reused, so a
\* byte of a file is identified by its value.
Bytes(first, len) == [i \in 1 .. len |-> first + i - 1]

\* The directory that holds no file of the set.
EmptyDir == <<>>

\* The appender as a record of its fields.
Self ==
    [condition |-> condition, max_filecount |-> max_filecount,
     current_filesize |-> current_filesize, writer_opt |-> writer_opt]

\* The appender and the directory are those of outcome o.
Installed(o) ==
    /\ condition = o.self.condition
    /\ max_filecount = o.self.max_filecount
    /\ current_filesize = o.self.current_filesize
    /\ writer_opt = o.self.writer_opt
    /\ disk = o.fs

\* The appender and the directory become those of outcome o.
Install(o) ==
    /\ condition' = o.self.condition
    /\ max_filecount' = o.self.max_filecount
    /\ current_filesize' = o.self.current_filesize
    /\ writer_opt' = o.self.writer_opt
    /\ disk' = o.fs

\* The appender is constructed with one of the conditions conds in an empty
\* directory, and construction succeeds.
Constructed(conds) ==
    /\ \E c \in conds, n \in 0 .. MaxFiles :
         \E o \in new(c, n, EmptyDir) : o.r.ok /\ Installed(o)
    /\ next_byte = 1
    /\ rotations = 0
    /\ rollover_failed = FALSE
    /\ written = <<>>

\* The calls the caller can make in the current state, as sets of outcomes.
WriteCalls(len, now) == write_with_datetime(Self, disk, Bytes(next_byte, len), now)
RolloverCalls == rollover(Self, disk)
FlushCalls == flush(Self, disk)

\* The caller still has len bytes to write.
CanWrite(len) == next_byte + len - 1 <= MaxBytes

\* write_with_datetime(buf, now), buf being the next len bytes, ends as o,
\* one of WriteCalls(len, now).
WriteStep(len, now, o) ==
    /\ Install(o)
    /\ next_byte' = next_byte + len

\* rollover() ends as o, one of RolloverCalls.
RolloverStep(o) ==
    /\ Install(o)
    /\ UNCHANGED next_byte

---------------------------------------------------------------------------
(* Spec: the appender under any sequence of write, rollover and flush.     *)

Init == Constructed(Conditions)

Write(len, now) ==
    /\ CanWrite(len)
    /\ \E o \in WriteCalls(len, now) : WriteStep(len, now, o)
    /\ UNCHANGED <<rotations, rollover_failed, written>>

Rollover ==
    /\ \E o \in RolloverCalls : RolloverStep(o)
    /\ UNCHANGED <<rotations, rollover_failed, written>>

Flush ==
    /\ \E o \in FlushCalls : Install(o)
    /\ UNCHANGED <<next_byte, rotations, rollover_failed, written>>

Next ==
    \/ \E len \in 1 .. MaxLen, now \in Times : Write(len, now)
    \/ Rollover
    \/ Flush

Spec == Init /\ [][Next]_vars

---------------------------------------------------------------------------
(* SpecCounted: the same calls, by a caller that counts the rollovers that *)
(* returned Ok and notes whether one returned Err.  Its conditions have no *)
(* frequency: a rollover starts from write by the size limit, or from the  *)
(* caller.                                                                 *)

InitCounted == Constructed(Built({}, 0 .. MaxThreshold))

CountedWrite(len, now) ==
    /\ CanWrite(len)
    /\ \E o \in WriteCalls(len, now) :
         /\ WriteStep(len, now, o)
         /\ rotations' = IF o.rolled /\ o.rr.ok THEN rotations + 1 ELSE rotations
         /\ rollover_failed' = (rollover_failed \/ (o.rolled /\ ~o.rr.ok))
    /\ UNCHANGED written

CountedRollover ==
    /\ rotations < MaxRollovers
    /\ \E o \in RolloverCalls :
         /\ RolloverStep(o)
         /\ rotations' = IF o.r.ok THEN rotations + 1 ELSE rotations
         /\ rollover_failed' = (rollover_failed \/ ~o.r.ok)
    /\ UNCHANGED written

NextCounted ==
    \/ \E len \in 1 .. MaxLen : CountedWrite(len, DateTime(2021, 3, 30, 1, 2, 3))
    \/ CountedRollover
    \/ Flush

SpecCounted == InitCounted /\ [][NextCounted]_vars

---------------------------------------------------------------------------
(* SpecRecorded: the same calls, by a caller that records the writes it    *)
(* has made since the live file was opened.  Its conditions have no        *)
(* frequency.                                                              *)

\* write has ended as o with the handle of another open than the one the
\* appender held before: the rollover within it got past its flush, or
\* there was no handle.
Reopened(o) ==
    IF o.rolled THEN o.rr.ok \/ o.rr.err # "flush" ELSE is_none(writer_opt)

RecordedWrite(len, now) ==
    /\ CanWrite(len)
    /\ \E o \in WriteCalls(len, now) :
         /\ WriteStep(len, now, o)
         /\ written' =
              IF is_none(o.self.writer_opt) THEN <<>>
              ELSE Append(IF Reopened(o) THEN <<>> ELSE written,
                          [buf |-> Bytes(next_byte, len), ok |-> o.r.ok])
    /\ UNCHANGED <<rotations, rollover_failed>>

RecordedRollover ==
    /\ \E o \in RolloverCalls :
         /\ RolloverStep(o)
         /\ written' = IF o.r.err = "flush" THEN written ELSE <<>>
    /\ UNCHANGED <<rotations, rollover_failed>>

NextRecorded ==
    \/ \E len \in 1 .. MaxLen : RecordedWrite(len, DateTime(2021, 3, 30, 1, 2, 3))
    \/ RecordedRollover
    \/ Flush

SpecRecorded == InitCounted /\ [][NextRecorded]_vars

---------------------------------------------------------------------------
(* SpecSuccessful: the runs in which every call returns Ok, the rollover   *)
(* within a write included.  System calls whose failure the appender       *)
(* ignores (remove_file, metadata) may still fail.  The caller counts the  *)
(* rollovers.                                                              *)

SuccessfulWrite(len, now) ==
    /\ CanWrite(len)
    /\ \E o \in WriteCalls(len, now) :
         /\ o.r.ok
         /\ o.rolled => o.rr.ok
         /\ WriteStep(len, now, o)
         /\ rotations' = IF o.rolled THEN Min(rotations + 1, MaxRollovers)
                                     ELSE rotations
    /\ UNCHANGED <<rollover_failed, written>>

SuccessfulRollover ==
    /\ \E o \in RolloverCalls :
         /\ o.r.ok
         /\ RolloverStep(o)
         /\ rotations' = Min(rotations + 1, MaxRollovers)
    /\ UNCHANGED <<rollover_failed, written>>

SuccessfulFlush ==
    /\ \E o \in FlushCalls : o.r.ok /\ Install(o)
    /\ UNCHANGED <<next_byte, rotations, rollover_failed, written>>

NextSuccessful ==
    \/ \E len \in 1 .. MaxLen, now \in Times : SuccessfulWrite(len, now)
    \/ SuccessfulRollover
    \/ SuccessfulFlush

SpecSuccessful == Init /\ [][NextSuccessful]_vars

---------------------------------------------------------------------------
(* SpecPolicy: a RollingConditionBase alone, asked with any timestamp and  *)
(* any size, in any order.  No appender is constructed.                    *)

\* Timestamps that differ in any of the components.
AllTimes ==
    {DateTime(y, mo, d, h, mi, s) :
       y \in {2021, 2022}, mo \in {3, 5}, d \in {30, 31},
       h \in {1, 2}, mi \in {2, 3}, s \in {0, 3}}

\* The sizes should_rollover is asked with.
Sizes == 0 .. MaxThreshold + 1

InitPolicy ==
    /\ condition \in Built(RollingFrequency, 0 .. MaxThreshold)
    /\ max_filecount = 0
    /\ current_filesize = 0
    /\ writer_opt = None
    /\ disk = EmptyDir
    /\ next_byte = 1
    /\ rotations = 0
    /\ rollover_failed = FALSE
    /\ written = <<>>

\* should_rollover(now, size) on the condition.
ShouldRollover(now, size) ==
    /\ condition' = should_rollover(condition, now, size).self
    /\ UNCHANGED <<max_filecount, current_filesize, writer_opt, disk,
                   next_byte, rotations, rollover_failed, written>>

NextPolicy == \E now \in AllTimes, size \in Sizes : ShouldRollover(now, size)

SpecPolicy == InitPolicy /\ [][NextPolicy]_vars

---------------------------------------------------------------------------
(* What the claims speak of. *)

\* The bytes of the live file: those on disk, then those still buffered.
LiveContent(self, fs) ==
    (IF 0 \in DOMAIN fs THEN fs[0] ELSE <<>>)
    \o (IF is_some(self.writer_opt) THEN unwrap(self.writer_opt) ELSE <<>>)

\* Sequence s ends with sequence t.
EndsWith(s, t) ==
    /\ Len(s) >= Len(t)
    /\ SubSeq(s, Len(s) - Len(t) + 1, Len(s)) = t

\* The slots of the historical files that exist.
Historical(fs) == DOMAIN fs \ {0}

\* The lengths of the buffers the caller can hand to write in the current state.
Lens == {len \in 1 .. MaxLen : CanWrite(len)}

\* The rollover that write attempted failed in a rename, with an error other
\* than NotFound.
RenameFailed(o) == o.rolled /\ ~o.rr.ok /\ o.rr.err = "rename"

---------------------------------------------------------------------------
(* C1 *)

\* C1 as claimed: when the rollover that write triggers fails in a rename, then,
\* provided the live file can be opened, write returns Ok(len) and the bytes
\* are appended to the live file.
C1_Claimed ==
    \A len \in Lens, now \in Times :
      \A o \in WriteCalls(len, now) :
        (RenameFailed(o) /\ o.r.err # "open") =>
          /\ o.r = Ok(len)
          /\ EndsWith(LiveContent(o.self, o.fs), Bytes(next_byte, len))

\* C1 as amended: when the rollover that write triggers fails in a rename, write
\* never returns the error of the rollover: it returns an error only when the
\* open of the live file or the write to it fails, and otherwise Ok(len) with
\* the bytes appended to the live file.
C1_WriteSurvivesRenameFailure ==
    \A len \in Lens, now \in Times :
      \A o \in WriteCalls(len, now) :
        RenameFailed(o) =>
          /\ o.r.ok \/ o.r.err \in {"open", "write"}
          /\ o.r.ok =>
               /\ o.r = Ok(len)
               /\ is_some(o.self.writer_opt)
               /\ EndsWith(LiveContent(o.self, o.fs), Bytes(next_byte, len))

\* C1's case: a write whose rollover fails in the rename of the live file
\* returns Ok, and its bytes follow those the live file already held.
C1_Witness ==
    \E len \in Lens, now \in Times :
      \E o \in WriteCalls(len, now) :
        /\ RenameFailed(o) /\ o.rr.slot = 0
        /\ o.r = Ok(len)
        /\ LiveContent(Self, disk) # <<>>
        /\ LiveContent(o.self, o.fs) = LiveContent(Self, disk) \o Bytes(next_byte, len)

---------------------------------------------------------------------------
(* C2 *)

\* What the file of slot i holds: for the live file, the buffered bytes too.
Held(self, fs, i) == IF i = 0 THEN LiveContent(self, fs) ELSE fs[i]

\* C2 as claimed: whatever a rollover does, and whichever renames fail in it,
\* the bytes each of base .. base.(max(N,1)-1) held before it (when it held
\* any) are held by some file of base .. base.max(N,1) after it: only the
\* oldest slot may be destroyed.
C2_Claimed ==
    \A o \in RolloverCalls :
      \A i \in 0 .. last_slot(Self) - 1 :
        (i \in DOMAIN disk /\ Held(Self, disk, i) # <<>>) =>
          \E j \in 0 .. last_slot(Self) :
            /\ j \in DOMAIN o.fs
            /\ Held(o.self, o.fs, j) = Held(Self, disk, i)

---------------------------------------------------------------------------
(* C3 and C4, for the caller that counts rollovers (SpecCounted). *)

\* C3 as claimed: after k rollovers, all successful, exactly min(k, N)
\* historical files exist, base.1 .. base.min(k, N), N being max_filecount;
\* and base.(N+1) never exists.
C3_Claimed ==
    /\ ~rollover_failed =>
         Historical(disk) = 1 .. Min(rotations, max_filecount)
    /\ (max_filecount + 1) \notin DOMAIN disk

\* C3 as amended: the same with max(N, 1) for N: after k rollovers, all
\* successful, the historical files are base.1 .. base.min(k, max(N,1)), and
\* base.(max(N,1)+1) never exists.
C3_ChainLength ==
    /\ ~rollover_failed =>
         Historical(disk) = 1 .. Min(rotations, Max(max_filecount, 1))
    /\ (Max(max_filecount, 1) + 1) \notin DOMAIN disk

\* C3's case: more successful rollovers than slots, and the chain is full.
C3_Witness ==
    /\ ~rollover_failed
    /\ max_filecount = MaxFiles
    /\ rotations > max_filecount
    /\ Historical(disk) = 1 .. max_filecount
    /\ \A i \in Historical(disk) : disk[i] # <<>>

C4_GapAfterFailure ==
    \E k \in 0 .. Max(max_filecount, 1) : Historical(disk) = 1 .. k

---------------------------------------------------------------------------
(* C5 *)

\* A rollover from the appender self and the directory fs has left the
\* appender self2 and the directory fs2 with every file moved up by one slot:
\* base.1 holds what the live file held (on disk and buffered), base.(i+1)
\* what base.i held for 1 <= i < max(N,1), and base exists, open and empty.
Shifted(self, fs, self2, fs2) ==
    /\ 0 \in DOMAIN fs =>
         (1 \in DOMAIN fs2 /\ fs2[1] = LiveContent(self, fs))
    /\ \A i \in 1 .. Max(self.max_filecount, 1) - 1 :
         i \in DOMAIN fs => ((i + 1) \in DOMAIN fs2 /\ fs2[i + 1] = fs[i])
    /\ 0 \in DOMAIN fs2 /\ fs2[0] = <<>>
    /\ self2.writer_opt = Some(<<>>)

\* C5: a rollover that returns Ok, called by the caller or from within write,
\* leaves base.1 holding exactly the bytes the live file held just before it
\* (those still buffered included), base.(i+1) holding exactly what base.i held
\* for every 1 <= i < max(N,1), and the live file base existing and empty.
C5_RolloverShifts ==
    /\ \A o \in RolloverCalls :
         o.r.ok => Shifted(Self, disk, o.self, o.fs)
    /\ \A now \in Times :
         \A p \in write_rollover(Self, disk, now) :
           (p.rolled /\ p.rr.ok) => Shifted(Self, disk, p.self, p.fs)

\* C5's case: a rollover of a full chain returns Ok; the live file held bytes
\* on disk and in the buffer, and base.1 and base.2 held bytes.
C5_Witness ==
    /\ max_filecount = 2
    /\ DOMAIN disk = {0, 1, 2}
    /\ disk[0] # <<>> /\ disk[1] # <<>>
    /\ is_some(writer_opt) /\ unwrap(writer_opt) # <<>>
    /\ \E o \in RolloverCalls :
         /\ o.r.ok
         /\ DOMAIN o.fs = {0, 1, 2}
         /\ o.fs[1] = disk[0] \o unwrap(writer_opt)
         /\ o.fs[2] = disk[1]
         /\ o.fs[0] = <<>>

---------------------------------------------------------------------------
(* C6 and C7, for a RollingConditionBase alone (SpecPolicy). *)

\* The bucket of timestamp t under frequency f: the day, the hour of the day,
\* or the minute of the hour of the day.
Bucket(f, t) ==
    CASE f = EveryDay    -> <<t.year, t.month, t.day>>
      [] f = EveryHour   -> <<t.year, t.month, t.day, t.hour>>
      [] f = EveryMinute -> <<t.year, t.month, t.day, t.hour, t.minute>>

\* Condition c has a frequency and no size limit.
FrequencyOnly(c) == is_some(c.frequency_opt) /\ is_none(c.max_size_opt)

\* Condition c has a size limit and no frequency.
SizeOnly(c) == is_none(c.frequency_opt) /\ is_some(c.max_size_opt)

\* Timestamp a is earlier than timestamp b.
Earlier(a, b) ==
    LET ka == <<a.year, a.month, a.day, a.hour, a.minute, a.second>>
        kb == <<b.year, b.month, b.day, b.hour, b.minute, b.second>>
    IN \E i \in 1 .. 6 : ka[i] < kb[i] /\ \A j \in 1 .. i - 1 : ka[j] = kb[j]

\* C6: a frequency-only condition that has recorded a timestamp t1 answers
\* should_rollover(t2, size) with false when t1 and t2 are of the same bucket
\* and with true when they are of different buckets, for every size and for
\* t2 later or earlier than t1.
C6_BucketDecision ==
    (FrequencyOnly(condition) /\ is_some(condition.last_write_opt)) =>
      \A t2 \in AllTimes, size \in Sizes :
        should_rollover(condition, t2, size).rollover
          <=> (Bucket(unwrap(condition.frequency_opt), t2)
                 # Bucket(unwrap(condition.frequency_opt),
                          unwrap(condition.last_write_opt)))

\* C6's case: an hourly condition has recorded t1; an earlier timestamp of the
\* same hour of another day gets true, at the largest size and at size 0, and
\* another timestamp of the hour of t1 gets false.
C6_Witness ==
    /\ FrequencyOnly(condition)
    /\ condition.frequency_opt = Some(EveryHour)
    /\ is_some(condition.last_write_opt)
    /\ LET t1 == unwrap(condition.last_write_opt)
       IN /\ \E t2 \in AllTimes :
               /\ Earlier(t2, t1)
               /\ t2.hour = t1.hour /\ t2.day # t1.day
               /\ \A size \in Sizes : should_rollover(condition, t2, size).rollover
          /\ \E t2 \in AllTimes :
               /\ t2 # t1
               /\ Bucket(EveryHour, t2) = Bucket(EveryHour, t1)
               /\ \A size \in Sizes : ~should_rollover(condition, t2, size).rollover

\* C7: a size-only condition with limit T answers should_rollover(now,
\* current_size) with true if and only if current_size >= T, for every
\* timestamp now and whatever timestamp it has recorded, if any.
C7_SizeDecision ==
    SizeOnly(condition) =>
      \A now \in AllTimes, size \in Sizes :
        should_rollover(condition, now, size).rollover
          <=> size >= unwrap(condition.max_size_opt)

\* C7's case: a size-only condition with the largest limit has recorded a
\* timestamp; asked with a timestamp of another day it answers false one byte
\* below the limit and true at the limit.
C7_Witness ==
    /\ SizeOnly(condition)
    /\ condition.max_size_opt = Some(MaxThreshold)
    /\ is_some(condition.last_write_opt)
    /\ \E now \in AllTimes :
         /\ now.day # unwrap(condition.last_write_opt).day
         /\ ~should_rollover(condition, now, MaxThreshold - 1).rollover
         /\ should_rollover(condition, now, MaxThreshold).rollover

---------------------------------------------------------------------------
(* C8 *)

---------------------------------------------------------------------------
(* C9 *)

\* C9 as claimed, step by step: an open within write sets current_filesize to
\* the length the live file has at that open; a write through the handle that
\* was open adds the length of its buffer when it returns Ok and nothing
\* otherwise; flush leaves it; and it is 0 after a rollover that returns Ok.
C9_Claimed ==
    /\ \A now \in Times :
         \A p \in write_rollover(Self, disk, now) :
           is_none(p.self.writer_opt) =>
             \A q \in open_writer_if_needed(p.self, p.fs) :
               q.r.ok => q.self.current_filesize = Len(q.fs[0])
    /\ \A len \in Lens, now \in Times :
         \A o \in WriteCalls(len, now) :
           (is_some(writer_opt) /\ ~o.rolled) =>
             o.self.current_filesize
               = current_filesize + (IF o.r.ok THEN len ELSE 0)
    /\ \A o \in FlushCalls : o.self.current_filesize = current_filesize
    /\ \A o \in RolloverCalls : o.r.ok => o.self.current_filesize = 0

---------------------------------------------------------------------------
(* C10 *)

---------------------------------------------------------------------------
(* C11, for the caller that records its writes (SpecRecorded). *)

\* The bytes of the writes of log w that returned Ok, in the order of the writes.
RECURSIVE Acked(_)
Acked(w) ==
    IF w = <<>> THEN <<>>
    ELSE (IF Head(w).ok THEN Head(w).buf ELSE <<>>) \o Acked(Tail(w))

\* What the writes of log w can have put in the file: all the bytes of each
\* write that returned Ok and, of a write that failed, some part of its
\* buffer short of the whole, in the order of the writes.
RECURSIVE Landed(_)
Landed(w) ==
    IF w = <<>> THEN {<<>>}
    ELSE {h \o t :
            h \in (IF Head(w).ok THEN {Head(w).buf}
                   ELSE {SubSeq(Head(w).buf, 1, k) : k \in 0 .. Len(Head(w).buf) - 1}),
            t \in Landed(Tail(w))}

\* C11 as claimed: after flush returns Ok, the live file on disk ends with
\* the bytes of all the writes that returned Ok since the file was opened,
\* in the order of the writes, and nothing is left in the buffer.
C11_Claimed ==
    \A o \in FlushCalls :
      (is_some(writer_opt) /\ o.r.ok) =>
        /\ unwrap(o.self.writer_opt) = <<>>
        /\ EndsWith(o.fs[0], Acked(written))

\* C11 as amended: after flush returns Ok nothing is left in the buffer, and
\* the live file on disk ends with what the writes made since the file was
\* opened have put in it, in the order of the writes: all the bytes of each
\* write that returned Ok and, for a write that failed, the part of its
\* buffer that had reached the file.  When no write has failed since the
\* file was opened, it ends with exactly the bytes of the writes.
C11_FlushedWrites ==
    \A o \in FlushCalls :
      (is_some(writer_opt) /\ o.r.ok) =>
        /\ unwrap(o.self.writer_opt) = <<>>
        /\ \E s \in Landed(written) : EndsWith(o.fs[0], s)
        /\ (\A i \in 1 .. Len(written) : written[i].ok) =>
             EndsWith(o.fs[0], Acked(written))

\* C11's case: two writes returned Ok since the file was opened, the bytes
\* of the second are still in the buffer, and flush returns Ok: the file
\* ends with the bytes of the first and then those of the second.
C11_Witness ==
    /\ Len(written) = 2
    /\ written[1].ok /\ written[2].ok
    /\ is_some(writer_opt) /\ unwrap(writer_opt) # <<>>
    /\ \E o \in FlushCalls :
         /\ o.r.ok
         /\ o.fs[0] # disk[0]
         /\ EndsWith(o.fs[0], written[1].buf \o written[2].buf)

---------------------------------------------------------------------------
(* C12 *)

\* C12 as claimed: in every reachable state in which the caller can write,
\* the size write hands to should_rollover (self.current_filesize, lib.rs
\* 168) is the length of the live file, what is buffered for it included.
C12_Claimed ==
    Lens # {} => current_filesize = Len(LiveContent(Self, disk))

---------------------------------------------------------------------------
(* C13, for a RollingConditionBase alone (SpecPolicy). *)

\* C13: whatever the condition is built with and whatever it has recorded,
\* should_rollover(now, size) returns exactly (a frequency is set and a
\* timestamp is recorded and now is of another bucket than it) or (a size
\* limit is set and size >= the limit); so the frequency never says so on
\* the first call, and a condition with neither never does.
C13_Decision ==
    /\ \A now \in AllTimes, size \in Sizes :
         should_rollover(condition, now, size).rollover
           <=> \/ /\ is_some(condition.frequency_opt)
                   /\ is_some(condition.last_write_opt)
                   /\ Bucket(unwrap(condition.frequency_opt), now)
                        # Bucket(unwrap(condition.frequency_opt),
                                 unwrap(condition.last_write_opt))
               \/ /\ is_some(condition.max_size_opt)
                   /\ size >= unwrap(condition.max_size_opt)
    /\ (FrequencyOnly(condition) /\ is_none(condition.last_write_opt)) =>
         \A now \in AllTimes, size \in Sizes :
           ~should_rollover(condition, now, size).rollover
    /\ (is_none(condition.frequency_opt) /\ is_none(condition.max_size_opt)) =>
         \A now \in AllTimes, size \in Sizes :
           ~should_rollover(condition, now, size).rollover

\* C13's case: a condition with a frequency and a size limit has recorded a
\* timestamp: below the limit it says so for a timestamp of another bucket
\* and not for one of the same bucket, and at the limit it says so for a
\* timestamp of the same bucket.
C13_Witness ==
    /\ is_some(condition.frequency_opt)
    /\ condition.max_size_opt = Some(MaxThreshold)
    /\ is_some(condition.last_write_opt)
    /\ LET f == unwrap(condition.frequency_opt)
           t1 == unwrap(condition.last_write_opt)
       IN /\ \E now \in AllTimes :
               /\ Bucket(f, now) # Bucket(f, t1)
               /\ should_rollover(condition, now, MaxThreshold - 1).rollover
          /\ \E now \in AllTimes :
               /\ now # t1 /\ Bucket(f, now) = Bucket(f, t1)
               /\ ~should_rollover(condition, now, MaxThreshold - 1).rollover
               /\ should_rollover(condition, now, MaxThreshold).rollover

---------------------------------------------------------------------------
(* C14 and C15 *)

\* C14 as claimed: a rollover() in which a rename fails with an error other
\* than NotFound returns that error with the live file reopened: base
\* exists and the appender holds a handle.
C14_Claimed ==
    \A o \in RolloverCalls :
      o.r.err = "rename" =>
        (is_some(o.self.writer_opt) /\ 0 \in DOMAIN o.fs)

\* C15 as claimed: once the rename of a file base.i has failed in rotate_files with
\* an error other than NotFound, the renames of the slots below i are still
\* attempted and, whichever of them fail, the error returned is that of
\* slot i when no higher slot failed: the first one in rename order.
C15_Claimed ==
    \A f \in remove_file(disk, last_slot(Self)) :
      \A i \in (1 .. last_slot(Self) - 1) \cap DOMAIN f :
        \A o \in rotate_loop(i - 1, f, Err("rename", i)) :
          o.r = Err("rename", i)

---------------------------------------------------------------------------
(* C16 *)

\* C16: every should_rollover(now, size), at size 0 and at the size the
\* appender has counted, leaves the condition with now recorded and nothing
\* else changed, whatever it returns, on the first call and when now is
\* earlier than what is recorded; so does every write, which
\* calls it once, however the write ends; rollover and flush leave the
\* condition as it is.
C16_LastWriteRecorded ==
    /\ \A now \in AllTimes, size \in {0, current_filesize} :
         should_rollover(condition, now, size).self
           = [condition EXCEPT !.last_write_opt = Some(now)]
    /\ \A len \in Lens, now \in Times :
         \A o \in WriteCalls(len, now) :
           o.self.condition = [condition EXCEPT !.last_write_opt = Some(now)]
    /\ \A o \in RolloverCalls : o.self.condition = condition
    /\ \A o \in FlushCalls : o.self.condition = condition

\* C16's case: the condition has recorded a timestamp; asked with an earlier
\* one it returns false and records it; and a write with the earlier
\* timestamp that returns an error has recorded it too.
C16_Witness ==
    /\ is_some(condition.last_write_opt)
    /\ \E now \in Times :
         /\ Earlier(now, unwrap(condition.last_write_opt))
         /\ ~should_rollover(condition, now, current_filesize).rollover
         /\ should_rollover(condition, now, current_filesize).self.last_write_opt
              = Some(now)
         /\ \E len \in Lens :
              \E o \in WriteCalls(len, now) :
                ~o.r.ok /\ o.self.condition.last_write_opt = Some(now)

---------------------------------------------------------------------------
(* C17 *)

\* A call on the appender self and the directory fs has left self2 and fs2
\* with no file deleted or renamed, the handle open, current_filesize as it
\* was, and the bytes of the live file, on disk and buffered, as they were.
Untouched(self, fs, self2, fs2) ==
    /\ DOMAIN fs2 = DOMAIN fs
    /\ \A i \in Historical(fs) : fs2[i] = fs[i]
    /\ is_some(self2.writer_opt)
    /\ self2.current_filesize = self.current_filesize
    /\ self2.max_filecount = self.max_filecount
    /\ LiveContent(self2, fs2) = LiveContent(self, fs)

\* C17: when the flush that rollover starts with fails, rollover returns that
\* error having changed nothing else: no file is deleted or renamed, the
\* handle stays open and current_filesize is unchanged; this for rollover()
\* called by the caller and for the rollover within write.
C17_FlushFailureChangesNothing ==
    /\ \A o \in RolloverCalls :
         o.r.err = "flush" =>
           (Untouched(Self, disk, o.self, o.fs) /\ o.self.condition = condition)
    /\ \A now \in Times :
         \A p \in write_rollover(Self, disk, now) :
           (p.rolled /\ p.rr.err = "flush") => Untouched(Self, disk, p.self, p.fs)

\* C17's case: the appender has counted bytes, some of them are buffered,
\* base.1 holds bytes, and rollover() returns the error of its flush.
C17_Witness ==
    /\ current_filesize > 0
    /\ is_some(writer_opt) /\ unwrap(writer_opt) # <<>>
    /\ 1 \in DOMAIN disk /\ disk[1] # <<>>
    /\ \E o \in RolloverCalls :
         /\ o.r.err = "flush"
         /\ o.self.current_filesize = current_filesize
         /\ is_some(o.self.writer_opt)
         /\ o.fs[1] = disk[1]

---------------------------------------------------------------------------
(* C18 *)

\* C18 as claimed, for a write that returns Ok: a write that begins with no
\* handle and does not rotate reopens base in append mode: the bytes base
\* held are kept and the new bytes follow them, and current_filesize is the
\* length base had plus the number of the new bytes.
C18_Claimed ==
    is_none(writer_opt) =>
      \A len \in Lens, now \in Times :
        \A o \in WriteCalls(len, now) :
          (~o.rolled /\ o.r.ok) =>
            /\ o.r = Ok(len)
            /\ LiveContent(o.self, o.fs)
                 = LiveContent(Self, disk) \o Bytes(next_byte, len)
            /\ o.self.current_filesize = Len(LiveContent(Self, disk)) + len

---------------------------------------------------------------------------
(* C19 *)

\* The appender with max_filecount 1 for 0, and 0 for 1, all else the same.
Twin == [Self EXCEPT !.max_filecount = 1 - max_filecount]

\* The outcomes os without the max_filecount of the appender they leave.
Stripped(os) == {[o EXCEPT !.self.max_filecount = 0] : o \in os}

\* C19: an appender with max_filecount 0 and one with max_filecount 1, in the
\* same state over the same directory, have the same outcomes of every
\* operation (the files and their contents, the appender left, the result
\* returned), under the same failures of the environment; and so have their
\* constructions.  By induction the same holds of every sequence of
\* operations from the same initial file set.
C19_ZeroIsOne ==
    /\ \A c \in Conditions :
         Stripped(new(c, 0, EmptyDir)) = Stripped(new(c, 1, EmptyDir))
    /\ max_filecount \in {0, 1} =>
         /\ \A len \in Lens, now \in Times :
              Stripped(WriteCalls(len, now))
                = Stripped(write_with_datetime(Twin, disk, Bytes(next_byte, len), now))
         /\ Stripped(RolloverCalls) = Stripped(rollover(Twin, disk))
         /\ Stripped(FlushCalls) = Stripped(flush(Twin, disk))

\* C19's case: an appender with max_filecount 0 has base.1 and a live file,
\* both with bytes; its rollover can return Ok with the live file's bytes in
\* base.1, and so can that of the appender with max_filecount 1.
C19_Witness ==
    /\ max_filecount = 0
    /\ 1 \in DOMAIN disk /\ disk[1] # <<>>
    /\ LiveContent(Self, disk) # <<>>
    /\ \E o \in RolloverCalls, t \in rollover(Twin, disk) :
         /\ o.r.ok /\ t.r.ok
         /\ t.self.max_filecount = 1
         /\ o.fs = t.fs
         /\ DOMAIN o.fs = {0, 1}
         /\ o.fs[1] = LiveContent(Self, disk)

---------------------------------------------------------------------------
(* C20 *)

\* The rollover within write failed with base left in place: in its flush,
\* or in the rename of base.
BaseKept(o) ==
    o.rolled /\ (o.rr.err = "flush" \/ (o.rr.err = "rename" /\ o.rr.slot = 0))

\* The timestamps of the writes that follow: two hours of each of the two
\* days of Times, those of Times among them.
HoursOfDays ==
    {t \in AllTimes : t.year = 2021 /\ t.month = 3 /\ t.minute = 2 /\ t.second = 3}

\* After a write that ended as o, a write of one byte with timestamp now2
\* asks for a rollover exactly when now2 is of another bucket than now, the
\* timestamp of the write that ended as o, and when it does not and returns
\* Ok its byte follows the bytes of the live file.
NextWriteRotatesAtBucketChange(o, f, now, first) ==
    \A now2 \in HoursOfDays :
      \A o2 \in write_with_datetime(o.self, o.fs, Bytes(first, 1), now2) :
        /\ o2.rolled <=> Bucket(f, now2) # Bucket(f, now)
        /\ (~o2.rolled /\ o2.r.ok) =>
             LiveContent(o2.self, o2.fs)
               = LiveContent(o.self, o.fs) \o Bytes(first, 1)

\* C20 as claimed: with a frequency-only condition, when the rollover a
\* write starts at a bucket change fails, the writes after it with
\* timestamps of the new bucket do not ask for a rollover again, the next
\* rollover is asked for at the next bucket change, and the live file holds
\* the bytes of both buckets: those it held, then those of the write.
C20_Claimed ==
    FrequencyOnly(condition) =>
      \A len \in Lens, now \in Times :
        \A o \in WriteCalls(len, now) :
          (o.rolled /\ ~o.rr.ok) =>
            /\ NextWriteRotatesAtBucketChange(
                   o, unwrap(condition.frequency_opt), now, next_byte + len)
            /\ o.r.ok =>
                 LiveContent(o.self, o.fs)
                   = LiveContent(Self, disk) \o Bytes(next_byte, len)

\* C20 as amended: with a frequency-only condition, when the rollover a
\* write starts at a bucket change fails, the writes after it with
\* timestamps of the new bucket do not ask for a rollover again, and the next
\* rollover is asked for at the next bucket change.  When the rollover
\* failed in its flush or in the rename of base, base stays the live file
\* and holds the bytes of both buckets; when it failed in another rename or
\* in the reopen, base has been renamed and the live file is a new one.
C20_NoRetryInBucket ==
    FrequencyOnly(condition) =>
      \A len \in Lens, now \in Times :
        \A o \in WriteCalls(len, now) :
          (o.rolled /\ ~o.rr.ok) =>
            /\ NextWriteRotatesAtBucketChange(
                   o, unwrap(condition.frequency_opt), now, next_byte + len)
            /\ (BaseKept(o) /\ o.r.ok) =>
                 LiveContent(o.self, o.fs)
                   = LiveContent(Self, disk) \o Bytes(next_byte, len)
            /\ (~BaseKept(o) /\ o.r.ok /\ 0 \in DOMAIN disk) =>
                 LiveContent(o.self, o.fs) = Bytes(next_byte, len)

\* C20's case: a daily condition has recorded a day and the live file holds
\* bytes; a write of the next day asks for a rollover, which fails in the
\* rename of base, and returns Ok: the live file holds the bytes of both
\* days, and a write at another hour of that day does not ask again and
\* adds to them.
C20_Witness ==
    /\ FrequencyOnly(condition)
    /\ is_some(condition.last_write_opt)
    /\ LiveContent(Self, disk) # <<>>
    /\ \E len \in Lens, now \in Times :
         \E o \in WriteCalls(len, now) :
           /\ Earlier(unwrap(condition.last_write_opt), now)
           /\ o.rolled /\ o.rr.err = "rename" /\ o.rr.slot = 0
           /\ o.r.ok
           /\ LiveContent(o.self, o.fs)
                = LiveContent(Self, disk) \o Bytes(next_byte, len)
           /\ \E now2 \in HoursOfDays :
                /\ now2 # now
                /\ Bucket(EveryDay, now2) = Bucket(EveryDay, now)
                /\ \E o2 \in write_with_datetime(o.self, o.fs,
                                                   Bytes(next_byte + len, 1), now2) :
                     /\ ~o2.rolled /\ o2.r.ok
                     /\ LiveContent(o2.self, o2.fs)
                          = LiveContent(Self, disk)
                              \o Bytes(next_byte, len + 1)

---------------------------------------------------------------------------
(* C21, for the runs in which every call returns Ok (SpecSuccessful). *)

\* The highest slot of a historical file, 0 when there is none.
Oldest(fs) ==
    IF Historical(fs) = {} THEN 0
    ELSE CHOOSE m \in Historical(fs) : \A n \in Historical(fs) : n <= m

\* The contents of base.k, ..., base.1, oldest first, a missing file counting
\* as empty.
RECURSIVE Chain(_, _)
Chain(fs, k) ==
    IF k = 0 THEN <<>>
    ELSE (IF k \in DOMAIN fs THEN fs[k] ELSE <<>>) \o Chain(fs, k - 1)

\* All the bytes written so far, in the order of the writes.
AllWritten == Bytes(1, next_byte - 1)

\* C21: after any sequence of writes and rollovers that all returned Ok, from
\* an empty directory, the contents of base.k, ..., base.1 and the live file
\* (with what is buffered for it), oldest first, are together a suffix of
\* all the bytes written, in the order of the writes; after a flush that
\* returns Ok the files on disk alone are that suffix; and a rollover takes
\* away from its front only, what the oldest slot held.
C21_FilesAreSuffix ==
    /\ EndsWith(AllWritten, Chain(disk, Oldest(disk)) \o LiveContent(Self, disk))
    /\ \A o \in FlushCalls :
         o.r.ok =>
           /\ Chain(o.fs, Oldest(o.fs)) \o o.fs[0]
                = Chain(disk, Oldest(disk)) \o LiveContent(Self, disk)
           /\ LiveContent(o.self, o.fs) = o.fs[0]
    /\ \A o \in RolloverCalls :
         o.r.ok =>
           EndsWith(Chain(disk, Oldest(disk)) \o LiveContent(Self, disk),
                    Chain(o.fs, Oldest(o.fs)) \o LiveContent(o.self, o.fs))

\* C21's case: after more rollovers than slots, base.2 and base.1 each hold
\* bytes, the first byte written has been evicted from the oldest slot, and
\* the files hold the rest in the order written.
C21_Witness ==
    /\ max_filecount = 2
    /\ rotations >= 3
    /\ DOMAIN disk = {0, 1, 2}
    /\ disk[2] # <<>> /\ disk[1] # <<>>
    /\ next_byte > 3
    /\ disk[2] \o disk[1] \o LiveContent(Self, disk) = Bytes(2, next_byte - 2)

====
